---- MODULE Spec2Model ----
(***************************************************************************)
(* Model of notebooks/fft_comparison.py: the NumPy reference pipeline      *)
(* (numpy_spectrum, numpy_low_pass_mask, numpy_filter), the per-label      *)
(* difference statistics of compare, and the batch loop of __main__.       *)
(*                                                                         *)
(* Arithmetic.  The program computes in IEEE doubles; the model computes   *)
(* in exact rationals <<n, d>> (d > 0, lowest terms).  A pair with d = 0   *)
(* is a non-finite double: <<1, 0>> is +inf, <<-1, 0>> is -inf and         *)
(* <<0, 0>> is NaN, which is what a division by zero yields under NumPy's  *)
(* default error state (a RuntimeWarning, no exception).  diagonal is only *)
(* ever used squared, so sqrt(w*w + h*h) ** 2 is modelled as w*w + h*h.    *)
(*                                                                         *)
(* Images are records [h, w, px] with px the row-major sequence of the     *)
(* h*w pixels; pixel (y, x) is px[y*w + x + 1].                            *)
(*                                                                         *)
(* Specifications.  SpecMask, SpecFilter, SpecSpectrum and SpecCompare     *)
(* apply one pure part of the program to inputs drawn from bounded sets:   *)
(* numpy_low_pass_mask with its complement, the two calls of numpy_filter, *)
(* numpy_spectrum, and one pass of the comparison loop.  Spec is the batch *)
(* loop of __main__ with compare as one step per test image.  TLC's        *)
(* integers are 32 bits wide, which limits the exact transforms to images  *)
(* of at most four pixels.                                                 *)
(***************************************************************************)
EXTENDS Integers, Sequences, FiniteSets, TLC

VARIABLES
    pc,            \* position of the scenario being run
    dims,          \* <<h, w>> handed to numpy_low_pass_mask
    params,        \* <<cutoff, smoothing>>, two rationals
    lp_mask,       \* compare's lp_mask
    hp_mask,       \* compare's hp_mask
    fperr,         \* floating-point error conditions raised so far
    img,           \* compare's img
    np_spectrum,   \* compare's np_spectrum
    np_low_pass,   \* compare's np_low_pass
    np_high_pass,  \* compare's np_high_pass
    np_img,        \* reference image of one labelled comparison
    rs_img,        \* candidate image of one labelled comparison
    log,           \* lines printed so far
    error,         \* the uncaught exception, "none" while there is none
    idx,           \* position of the batch loop in test_images
    exists,        \* exists[i]: test image i is on disk
    rust_ok,       \* rust_ok[i]: cargo exits with status 0 for test image i
    invoked        \* test images run_rust_example was called for, in order

vars == <<pc, dims, params, lp_mask, hp_mask, fperr, img, np_spectrum,
          np_low_pass, np_high_pass, np_img, rs_img, log, error, idx, exists,
          rust_ok, invoked>>

----------------------------------------------------------------------------
(* Bounds of the model *)

MaxDim == 3
MaxCutoffTenths == 5
MaxSmoothTenths == 3
MaxPixels == 4
MaxCmpPixels == 3
NumImages == 2
MaxMainWidth == 3

----------------------------------------------------------------------------
(* Rational arithmetic standing for float64 *)

Abs(n) == IF n < 0 THEN -n ELSE n

Sign(n) == IF n < 0 THEN -1 ELSE IF n > 0 THEN 1 ELSE 0

RECURSIVE GCD(_, _)
GCD(a, b) == IF b = 0 THEN a ELSE GCD(b, a % b)

\* n/d in lowest terms with a positive denominator; n/0 is inf, -inf or NaN
Rat(n, d) ==
    IF d = 0 THEN <<Sign(n), 0>>
    ELSE LET g == GCD(Abs(n), Abs(d))
             s == IF d < 0 THEN -1 ELSE 1
         IN <<(s * n) \div g, (s * d) \div g>>

Zero == <<0, 1>>
One == <<1, 1>>
NaN == <<0, 0>>

IsFinite(a) == a[2] # 0

IsNaN(a) == a = NaN

RatOfInt(n) == <<n, 1>>

\* a + b; NaN propagates, inf + (-inf) is NaN
RatAdd(a, b) ==
    IF IsFinite(a) /\ IsFinite(b)
    THEN LET g == GCD(a[2], b[2])
         IN Rat(a[1] * (b[2] \div g) + b[1] * (a[2] \div g), (a[2] \div g) * b[2])
    ELSE IF IsNaN(a) \/ IsNaN(b) THEN NaN
    ELSE IF ~IsFinite(a) /\ ~IsFinite(b) /\ a[1] # b[1] THEN NaN
    ELSE IF ~IsFinite(a) THEN a ELSE b

RatNeg(a) == <<-a[1], a[2]>>

RatSub(a, b) == RatAdd(a, RatNeg(b))

\* a * b; 0 * inf is NaN
RatMul(a, b) ==
    IF IsFinite(a) /\ IsFinite(b)
    THEN LET g1 == GCD(Abs(a[1]), b[2])
             g2 == GCD(Abs(b[1]), a[2])
         IN IF a[1] = 0 \/ b[1] = 0 THEN Zero
            ELSE Rat((a[1] \div g1) * (b[1] \div g2), (a[2] \div g2) * (b[2] \div g1))
    ELSE <<Sign(a[1]) * Sign(b[1]), 0>>

\* a / b as float64 divides: x/0 is +-inf, 0/0 is NaN, x/inf is 0
RatDiv(a, b) ==
    IF IsFinite(a) /\ IsFinite(b)
    THEN IF b[1] = 0 THEN <<Sign(a[1]), 0>>
         ELSE RatMul(a, Rat(b[2], b[1]))
    ELSE IF IsFinite(a) /\ ~IsNaN(b) THEN Zero
    ELSE IF IsFinite(b) /\ ~IsNaN(a)
         THEN <<a[1] * (IF b[1] < 0 THEN -1 ELSE 1), 0>>
    ELSE NaN

\* a <= b as float64 compares: every comparison with NaN is false (finite
\* values: by integer part, then by fractional part)
RatLeq(a, b) ==
    IF IsNaN(a) \/ IsNaN(b) THEN FALSE
    ELSE IF IsFinite(a) /\ IsFinite(b)
         THEN LET fa == a[1] \div a[2]
                  fb == b[1] \div b[2]
                  g == GCD(a[2], b[2])
              IN IF fa # fb THEN fa < fb
                 ELSE (a[1] % a[2]) * (b[2] \div g) <= (b[1] % b[2]) * (a[2] \div g)
    ELSE IF ~IsFinite(a) THEN a[1] < 0 \/ a = b
    ELSE b[1] > 0

RatLt(a, b) == RatLeq(a, b) /\ a # b

RatMax(a, b) == IF RatLeq(a, b) THEN b ELSE a

\* the floating-point error condition a division a / b raises, if any
DivError(a, b) ==
    IF IsFinite(a) /\ IsFinite(b) /\ b[1] = 0
    THEN IF a[1] = 0 THEN {"invalid"} ELSE {"divide"}
    ELSE {}

----------------------------------------------------------------------------
(* Images and masks *)

Image(h, w, px) == [h |-> h, w |-> w, px |-> px]

NoImage == Image(0, 0, <<>>)

Shape(a) == <<a.h, a.w>>

\* row and column of the i-th element of an h x w array in row-major order
RowOf(i, w) == (i - 1) \div w

ColOf(i, w) == (i - 1) % w

----------------------------------------------------------------------------
(* numpy_low_pass_mask *)

CUTOFF == Rat(1, 10)

SMOOTHING == Rat(1, 50)

\* diagonal ** 2
Diagonal2(h, w) == RatOfInt(w * w + h * h)

\* r_in ** 2, with r_in = max(0.0, cutoff - smoothing / 2) * diagonal
RIn2(h, w, cutoff, smoothing) ==
    LET r == RatMax(Zero, RatSub(cutoff, RatDiv(smoothing, RatOfInt(2))))
    IN RatMul(RatMul(r, r), Diagonal2(h, w))

\* r_out ** 2, with r_out = (cutoff + smoothing / 2) * diagonal
ROut2(h, w, cutoff, smoothing) ==
    LET r == RatAdd(cutoff, RatDiv(smoothing, RatOfInt(2)))
    IN RatMul(RatMul(r, r), Diagonal2(h, w))

\* d2 of pixel (y, x): (x - cx) ** 2 + (y - cy) ** 2 with cy, cx = (h-1)/2, (w-1)/2
D2(h, w, y, x) ==
    Rat((2 * x - (w - 1)) * (2 * x - (w - 1)) + (2 * y - (h - 1)) * (2 * y - (h - 1)), 4)

\* numerator and denominator of the transition-band quotient of one pixel
BandNum(h, w, cutoff, smoothing, y, x) ==
    RatSub(ROut2(h, w, cutoff, smoothing), D2(h, w, y, x))

BandDen(h, w, cutoff, smoothing) ==
    RatSub(ROut2(h, w, cutoff, smoothing), RIn2(h, w, cutoff, smoothing))

\* ((r_out**2 - d2) / (r_out**2 - r_in**2)) ** 2: the third argument of the
\* inner np.where, an array NumPy evaluates for every pixel before selecting
Transition(h, w, cutoff, smoothing) ==
    [i \in 1..(h * w) |->
        LET q == RatDiv(BandNum(h, w, cutoff, smoothing, RowOf(i, w), ColOf(i, w)),
                        BandDen(h, w, cutoff, smoothing))
        IN RatMul(q, q)]

\* the error conditions evaluating Transition raises
TransitionErrors(h, w, cutoff, smoothing) ==
    UNION {DivError(BandNum(h, w, cutoff, smoothing, RowOf(i, w), ColOf(i, w)),
                    BandDen(h, w, cutoff, smoothing)) : i \in 1..(h * w)}

\* mutant: the band boundaries compared the wrong way round
numpy_low_pass_mask_swapped(h, w, cutoff, smoothing) ==
    LET t == Transition(h, w, cutoff, smoothing)
    IN [i \in 1..(h * w) |->
          LET d2 == D2(h, w, RowOf(i, w), ColOf(i, w))
          IN IF RatLeq(ROut2(h, w, cutoff, smoothing), d2) THEN One
             ELSE IF RatLeq(d2, RIn2(h, w, cutoff, smoothing)) THEN Zero
             ELSE t[i]]

\* mutant: the inner plateau is left out, the band formula is used from the centre
numpy_low_pass_mask_no_plateau(h, w, cutoff, smoothing) ==
    LET t == Transition(h, w, cutoff, smoothing)
    IN [i \in 1..(h * w) |->
          LET d2 == D2(h, w, RowOf(i, w), ColOf(i, w))
          IN IF RatLeq(ROut2(h, w, cutoff, smoothing), d2) THEN Zero ELSE t[i]]

\* mask = np.where(d2 <= r_in**2, 1.0, np.where(d2 >= r_out**2, 0.0, transition))
numpy_low_pass_mask(h, w, cutoff, smoothing) ==
    LET t == Transition(h, w, cutoff, smoothing)
    IN [i \in 1..(h * w) |->
          LET d2 == D2(h, w, RowOf(i, w), ColOf(i, w))
          IN IF RatLeq(d2, RIn2(h, w, cutoff, smoothing)) THEN One
             ELSE IF RatLeq(ROut2(h, w, cutoff, smoothing), d2) THEN Zero
             ELSE t[i]]

\* mutant: the high-pass mask built on its own as a hard step at r_out
HighPassMask_independent(lp) ==
    [i \in DOMAIN lp |-> IF lp[i] = Zero THEN One ELSE Zero]

\* hp_mask = 1.0 - lp_mask
HighPassMask(lp) == [i \in DOMAIN lp |-> RatSub(One, lp[i])]

----------------------------------------------------------------------------
(* np.fft: the discrete Fourier transform of an h x w array, for lcm(h, w) in *)
(* {1, 2, 3, 4, 6}, where every twiddle factor lies in Q(i) or Q(sqrt(-3)).   *)
(* A complex number is <<re, im>>, two rationals, standing for                *)
(* re + im * sqrt(s2) * i with s2 = Root2(h, w).                              *)

Lcm(a, b) == (a * b) \div GCD(a, b)

\* 3 when the twiddle factors are Eisenstein numbers, 1 when Gaussian
Root2(h, w) == IF Lcm(h, w) % 3 = 0 THEN 3 ELSE 1

\* 2 * cos(2 pi j / n) for j = 0..n-1
Cos2 ==
    [n \in {1, 2, 3, 4, 6} |->
        CASE n = 1 -> <<2>>
          [] n = 2 -> <<2, -2>>
          [] n = 3 -> <<2, -1, -1>>
          [] n = 4 -> <<2, 0, -2, 0>>
          [] n = 6 -> <<2, 1, -1, -2, -1, 1>>]

\* 2 * sin(2 pi j / n) / sqrt(s2) for j = 0..n-1
Sin2 ==
    [n \in {1, 2, 3, 4, 6} |->
        CASE n = 1 -> <<0>>
          [] n = 2 -> <<0, 0>>
          [] n = 3 -> <<0, 1, -1>>
          [] n = 4 -> <<0, 2, 0, -2>>
          [] n = 6 -> <<0, 1, 1, 0, -1, -1>>]

CZero == <<Zero, Zero>>

CAdd(a, b) == <<RatAdd(a[1], b[1]), RatAdd(a[2], b[2])>>

CMul(a, b, s2) ==
    <<RatSub(RatMul(a[1], b[1]), RatMul(RatOfInt(s2), RatMul(a[2], b[2]))),
      RatAdd(RatMul(a[1], b[2]), RatMul(a[2], b[1]))>>

\* a complex number times a real one
CScale(a, r) == <<RatMul(a[1], r), RatMul(a[2], r)>>

\* |a| ** 2
CAbs2(a, s2) == RatAdd(RatMul(a[1], a[1]), RatMul(RatOfInt(s2), RatMul(a[2], a[2])))

RECURSIVE CSum(_, _)
CSum(f, n) == IF n = 0 THEN CZero ELSE CAdd(CSum(f, n - 1), f[n])

\* exp(sign * 2 pi i * (ky*my/h + kx*mx/w)), sign being 1 or -1
Twiddle(h, w, ky, kx, my, mx, sign) ==
    LET n == Lcm(h, w)
        j == (ky * my * (n \div h) + kx * mx * (n \div w)) % n
    IN <<Rat(Cos2[n][j + 1], 2), Rat(sign * Sin2[n][j + 1], 2)>>

\* np.fft.fft2 of a real or complex h x w array
fft2(a, h, w) ==
    [k \in 1..(h * w) |->
        CSum([m \in 1..(h * w) |->
                 CMul(a[m],
                      Twiddle(h, w, RowOf(k, w), ColOf(k, w), RowOf(m, w), ColOf(m, w), -1),
                      Root2(h, w))],
             h * w)]

\* np.fft.ifft2
ifft2(a, h, w) ==
    [m \in 1..(h * w) |->
        CScale(CSum([k \in 1..(h * w) |->
                        CMul(a[k],
                             Twiddle(h, w, RowOf(k, w), ColOf(k, w), RowOf(m, w), ColOf(m, w), 1),
                             Root2(h, w))],
                    h * w),
               Rat(1, h * w))]

\* np.fft.fftshift: every axis rolled forward by half its length, rounded down
fftshift(a, h, w) ==
    [i \in 1..(h * w) |->
        a[((RowOf(i, w) + h - h \div 2) % h) * w + ((ColOf(i, w) + w - w \div 2) % w) + 1]]

\* np.fft.ifftshift: every axis rolled back by half its length, rounded down
ifftshift(a, h, w) ==
    [i \in 1..(h * w) |->
        a[((RowOf(i, w) + h \div 2) % h) * w + ((ColOf(i, w) + w \div 2) % w) + 1]]

\* img / 255.0 as the complex input of the transform
Normalized(a) == [i \in 1..(a.h * a.w) |-> <<Rat(a.px[i], 255), Zero>>]

----------------------------------------------------------------------------
(* numpy_filter *)

\* np.clip(x, 0, 255)
Clip(x) ==
    IF RatLeq(x, Zero) THEN Zero
    ELSE IF RatLeq(RatOfInt(255), x) THEN RatOfInt(255)
    ELSE x

\* mutant: the value rounded to the nearest integer instead of truncated
AsUint8_nearest(x) == (2 * x[1] + x[2]) \div (2 * x[2])

\* .astype(np.uint8) of a finite value in [0, 255]: truncation
AsUint8(x) == x[1] \div x[2]

\* result * 255, with result = np.fft.ifft2(np.fft.ifftshift(fshift * mask)).real
FilterResult255(a, mask) ==
    LET fshift == fftshift(fft2(Normalized(a), a.h, a.w), a.h, a.w)
        filtered == [i \in 1..(a.h * a.w) |-> CScale(fshift[i], mask[i])]
        result == ifft2(ifftshift(filtered, a.h, a.w), a.h, a.w)
    IN [i \in 1..(a.h * a.w) |-> RatMul(result[i][1], RatOfInt(255))]

\* np.clip(result * 255, 0, 255).astype(np.uint8)
numpy_filter(a, mask) ==
    LET r == FilterResult255(a, mask)
    IN Image(a.h, a.w, [i \in 1..(a.h * a.w) |-> AsUint8(Clip(r[i]))])

----------------------------------------------------------------------------
(* numpy_spectrum *)

\* floor(255 * log1p(sqrt(a2)) / log1p(n)) for 0 < a2 < n * n, n = 1..5: the level
\* of a bin of squared magnitude a2 when the largest magnitude is n.  log1p is
\* tabulated (in double precision) for the magnitudes of the images of the model,
\* whose pixels are 0 or 255.
Log1pLevel ==
    <<  <<>>,
        <<160, 204, 233>>,
        <<127, 162, 184, 202, 216, 227, 237, 246>>,
        <<109, 139, 159, 174, 186, 196, 204, 212, 219, 225, 231, 237, 241, 246, 250>>,
        <<98, 125, 143, 156, 167, 176, 184, 191, 197, 202, 208, 212, 217, 221, 225,
          229, 232, 235, 238, 241, 244, 247, 250, 252>> >>

\* abs(fshift) ** 2
Magnitude2(a) ==
    LET fshift == fftshift(fft2(Normalized(a), a.h, a.w), a.h, a.w)
    IN [i \in 1..(a.h * a.w) |-> CAbs2(fshift[i], Root2(a.h, a.w))]

RECURSIVE RatMaxOf(_, _)
RatMaxOf(f, n) == IF n = 1 THEN f[1] ELSE RatMax(RatMaxOf(f, n - 1), f[n])

\* abs(fshift).max() ** 2; log1p is increasing and log1p(0) = 0, so
\* magnitude.max() is 0 exactly when this is
MagnitudeMax2(a) == RatMaxOf(Magnitude2(a), a.h * a.w)

\* the integer square root of a perfect square
RECURSIVE Isqrt(_, _)
Isqrt(n, r) == IF r * r >= n THEN r ELSE Isqrt(n, r + 1)

\* the conditions magnitude / magnitude.max() raises
SpectrumErrors(a) ==
    UNION {DivError(Magnitude2(a)[i], MagnitudeMax2(a)) : i \in 1..(a.h * a.w)}

\* what .astype(np.uint8) makes of NaN: the conversion is undefined in C, the
\* build decides the byte
NaNBytes == 0..255

\* the images (magnitude / magnitude.max() * 255).astype(np.uint8) can be
numpy_spectrum(a) ==
    LET m2 == Magnitude2(a)
        mx == MagnitudeMax2(a)
    IN IF mx = Zero
       THEN {Image(a.h, a.w, [i \in 1..(a.h * a.w) |-> b]) : b \in NaNBytes}
       ELSE {Image(a.h, a.w,
               [i \in 1..(a.h * a.w) |->
                   IF m2[i] = Zero THEN 0
                   ELSE IF m2[i] = mx THEN 255
                   ELSE Log1pLevel[Isqrt(mx[1], 0)][m2[i][1]]])}

----------------------------------------------------------------------------
(* compare, lines 101-108: the statistics of one labelled pair of images *)

\* NumPy's broadcasting rule for two 2-D shapes
Broadcastable(s, t) ==
    /\ (s[1] = t[1] \/ s[1] = 1 \/ t[1] = 1)
    /\ (s[2] = t[2] \/ s[2] = 1 \/ t[2] = 1)

IntMax(a, b) == IF a >= b THEN a ELSE b

BroadcastShape(s, t) == <<IntMax(s[1], t[1]), IntMax(s[2], t[2])>>

\* element (y, x) of an array broadcast to a larger shape
BroadcastAt(a, y, x) ==
    a.px[(IF a.h = 1 THEN 0 ELSE y) * a.w + (IF a.w = 1 THEN 0 ELSE x) + 1]

\* mutant: the subtraction done in uint8, without .astype(int): it wraps
Diff_uint8(a, b) ==
    LET s == BroadcastShape(Shape(a), Shape(b))
    IN [i \in 1..(s[1] * s[2]) |->
          (BroadcastAt(a, RowOf(i, s[2]), ColOf(i, s[2]))
             - BroadcastAt(b, RowOf(i, s[2]), ColOf(i, s[2])) + 256) % 256]

\* diff = np.abs(np_img.astype(int) - rs_img.astype(int))
Diff(a, b) ==
    LET s == BroadcastShape(Shape(a), Shape(b))
    IN [i \in 1..(s[1] * s[2]) |->
          Abs(BroadcastAt(a, RowOf(i, s[2]), ColOf(i, s[2]))
                - BroadcastAt(b, RowOf(i, s[2]), ColOf(i, s[2])))]

RECURSIVE IntMaxOf(_, _)
IntMaxOf(f, n) == IF n = 1 THEN f[1] ELSE IntMax(IntMaxOf(f, n - 1), f[n])

RECURSIVE IntSum(_, _)
IntSum(f, n) == IF n = 0 THEN 0 ELSE IntSum(f, n - 1) + f[n]

\* f"{x:.2f}" of x = n/d >= 0, in hundredths: to nearest, ties to even
Format2f(n, d) ==
    LET q == (100 * n) \div d
        r == (100 * n) % d
    IN IF 2 * r > d \/ (2 * r = d /\ q % 2 = 1) THEN q + 1 ELSE q

\* the line print writes for one label
StatsLine(label, a, b) ==
    LET diff == Diff(a, b)
        n == Len(diff)
    IN [label |-> label,
        max_diff |-> IntMaxOf(diff, n),
        mean_diff |-> Format2f(IntSum(diff, n), n),
        off_by_more_than_1 |-> IntSum([i \in 1..n |-> IF diff[i] > 1 THEN 1 ELSE 0], n)]

Labels == <<"spectrum", "low_pass", "high_pass">>

----------------------------------------------------------------------------
(* Inputs *)

\* cutoff in (0, ...] and smoothing >= 0 on a grid of tenths, and the program's own
CutoffGrid == {Rat(n, 10) : n \in 1..MaxCutoffTenths}

SmoothingGrid == {Rat(n, 10) : n \in 0..MaxSmoothTenths}

Params == (CutoffGrid \X SmoothingGrid) \cup {<<CUTOFF, SMOOTHING>>}

\* the grayscale levels of the model's test images
PixelLevels == {0, 255}

\* the shapes of at most n pixels
ShapesUpTo(n) == {s \in (1..n) \X (1..n) : s[1] * s[2] <= n}

\* the shapes whose transform the model computes exactly: the twiddle factors
\* are tabulated for lcm(h, w) in {1, 2, 3, 4, 6}
Shapes == {s \in ShapesUpTo(MaxPixels) : Lcm(s[1], s[2]) \in DOMAIN Cos2}

ImagesOf(shapes, levels) ==
    UNION {{Image(s[1], s[2], px) : px \in [1..(s[1] * s[2]) -> levels]} : s \in shapes}

Images == ImagesOf(Shapes, PixelLevels)

\* the levels of the images handed to the comparison
CmpLevels == {0, 1, 2, 255}

CmpImages == ImagesOf(ShapesUpTo(MaxCmpPixels), CmpLevels)

----------------------------------------------------------------------------
(* SpecMask: numpy_low_pass_mask and the complement taken from it *)

InitIdleOutputs ==
    /\ lp_mask = <<>>
    /\ hp_mask = <<>>
    /\ fperr = {}
    /\ np_spectrum = NoImage
    /\ np_low_pass = NoImage
    /\ np_high_pass = NoImage
    /\ np_img = NoImage
    /\ rs_img = NoImage
    /\ log = <<>>
    /\ error = "none"
    /\ idx = 0
    /\ exists = <<>>
    /\ rust_ok = <<>>
    /\ invoked = <<>>

InitMask ==
    /\ pc = "mask"
    /\ dims \in (1..MaxDim) \X (1..MaxDim)
    /\ params \in Params
    /\ img = NoImage
    /\ InitIdleOutputs

BuildMask ==
    /\ pc = "mask"
    /\ lp_mask' = numpy_low_pass_mask(dims[1], dims[2], params[1], params[2])
    /\ hp_mask' = HighPassMask(lp_mask')
    /\ fperr' = fperr \cup TransitionErrors(dims[1], dims[2], params[1], params[2])
    /\ pc' = "mask_done"
    /\ UNCHANGED <<dims, params, img, np_spectrum, np_low_pass, np_high_pass,
                   np_img, rs_img, log, error, idx, exists, rust_ok, invoked>>

NextMask == BuildMask

SpecMask == InitMask /\ [][NextMask]_vars

----------------------------------------------------------------------------
(* SpecFilter: the masks and the two filtered images of compare (lines 92-95) *)

InitFilter ==
    /\ pc = "filter"
    /\ img \in Images
    /\ params \in Params
    /\ dims = Shape(img)
    /\ InitIdleOutputs

Filter ==
    /\ pc = "filter"
    /\ lp_mask' = numpy_low_pass_mask(img.h, img.w, params[1], params[2])
    /\ hp_mask' = HighPassMask(lp_mask')
    /\ np_low_pass' = numpy_filter(img, lp_mask')
    /\ np_high_pass' = numpy_filter(img, hp_mask')
    /\ fperr' = fperr \cup TransitionErrors(img.h, img.w, params[1], params[2])
    /\ pc' = "filter_done"
    /\ UNCHANGED <<dims, params, img, np_spectrum, np_img, rs_img, log, error,
                   idx, exists, rust_ok, invoked>>

NextFilter == Filter

SpecFilter == InitFilter /\ [][NextFilter]_vars

----------------------------------------------------------------------------
(* SpecSpectrum: numpy_spectrum on one image (line 91) *)

InitSpectrum ==
    /\ pc = "spectrum"
    /\ img \in Images
    /\ params = <<CUTOFF, SMOOTHING>>
    /\ dims = Shape(img)
    /\ InitIdleOutputs

Spectrum ==
    /\ pc = "spectrum"
    /\ np_spectrum' \in numpy_spectrum(img)
    /\ fperr' = fperr \cup SpectrumErrors(img)
    /\ pc' = "spectrum_done"
    /\ UNCHANGED <<dims, params, lp_mask, hp_mask, img, np_low_pass,
                   np_high_pass, np_img, rs_img, log, error, idx, exists,
                   rust_ok, invoked>>

NextSpectrum == Spectrum

SpecSpectrum == InitSpectrum /\ [][NextSpectrum]_vars

----------------------------------------------------------------------------
(* SpecCompare: one pass of the comparison loop (lines 101-108) on a pair *)

InitCompare ==
    /\ pc = "compare"
    /\ np_img \in CmpImages
    /\ rs_img \in CmpImages
    /\ params = <<CUTOFF, SMOOTHING>>
    /\ dims = Shape(np_img)
    /\ img = NoImage
    /\ lp_mask = <<>>
    /\ hp_mask = <<>>
    /\ fperr = {}
    /\ np_spectrum = NoImage
    /\ np_low_pass = NoImage
    /\ np_high_pass = NoImage
    /\ log = <<>>
    /\ error = "none"
    /\ idx = 0
    /\ exists = <<>>
    /\ rust_ok = <<>>
    /\ invoked = <<>>

\* the operands broadcast: the statistics are printed
CompareLabel ==
    /\ pc = "compare"
    /\ Broadcastable(Shape(np_img), Shape(rs_img))
    /\ log' = Append(log, StatsLine(Labels[1], np_img, rs_img))
    /\ pc' = "compare_done"
    /\ UNCHANGED <<dims, params, lp_mask, hp_mask, fperr, img, np_spectrum,
                   np_low_pass, np_high_pass, np_img, rs_img, error, idx,
                   exists, rust_ok, invoked>>

\* the operands do not broadcast: the subtraction raises ValueError
CompareLabelRaises ==
    /\ pc = "compare"
    /\ ~Broadcastable(Shape(np_img), Shape(rs_img))
    /\ error' = "ValueError"
    /\ pc' = "compare_done"
    /\ UNCHANGED <<dims, params, lp_mask, hp_mask, fperr, img, np_spectrum,
                   np_low_pass, np_high_pass, np_img, rs_img, log, idx,
                   exists, rust_ok, invoked>>

NextCompare == CompareLabel \/ CompareLabelRaises

SpecCompare == InitCompare /\ [][NextCompare]_vars

----------------------------------------------------------------------------
(* Spec: the batch loop of __main__ over test_images, and compare as it      *)
(* calls it.  An image is represented by its shape here: which lines are     *)
(* printed and which exception ends the run depend on the shapes alone; the  *)
(* numbers on a statistics line are those of StatsLine.                      *)

TestImages == 1..NumImages

Line(kind, i, label, s, t) ==
    [kind |-> kind, image |-> i, label |-> label, np_shape |-> s, rs_shape |-> t]

NoShape == <<0, 0>>

\* the lines compare prints before it calls run_rust_example
HeaderLines(i, s) == <<Line("header", i, "", s, NoShape)>>

\* the statistics lines of the labels before the first pair that does not
\* broadcast, for the shapes rs of the three reference images
RECURSIVE StatsLines(_, _, _, _)
StatsLines(i, s, rs, k) ==
    IF k > Len(Labels) \/ ~Broadcastable(s, rs[k]) THEN <<>>
    ELSE <<Line("stats", i, Labels[k], s, rs[k])>> \o StatsLines(i, s, rs, k + 1)

AllBroadcast(s, rs) == \A k \in 1..Len(Labels) : Broadcastable(s, rs[k])

\* the shapes test images and reference images take in the batch
MainShapes == {<<1, n>> : n \in 1..MaxMainWidth}

Init ==
    /\ pc = "loop"
    /\ idx = 1
    /\ exists \in [TestImages -> BOOLEAN]
    /\ rust_ok \in [TestImages -> BOOLEAN]
    /\ log = <<>>
    /\ error = "none"
    /\ invoked = <<>>
    /\ params = <<CUTOFF, SMOOTHING>>
    /\ dims = NoShape
    /\ img = NoImage
    /\ lp_mask = <<>>
    /\ hp_mask = <<>>
    /\ fperr = {}
    /\ np_spectrum = NoImage
    /\ np_low_pass = NoImage
    /\ np_high_pass = NoImage
    /\ np_img = NoImage
    /\ rs_img = NoImage

\* path.exists() is false: the image is skipped
SkipMissing ==
    /\ pc = "loop"
    /\ idx <= NumImages
    /\ ~exists[idx]
    /\ log' = Append(log, Line("skip", idx, "", NoShape, NoShape))
    /\ idx' = idx + 1
    /\ UNCHANGED <<pc, dims, params, lp_mask, hp_mask, fperr, img, np_spectrum,
                   np_low_pass, np_high_pass, np_img, rs_img, error, exists,
                   rust_ok, invoked>>

\* compare, with cargo failing: subprocess.run(check=True) raises, nothing
\* catches it
CompareRustFails ==
    /\ pc = "loop"
    /\ idx <= NumImages
    /\ exists[idx]
    /\ ~rust_ok[idx]
    /\ \E s \in MainShapes :
          /\ dims' = s
          /\ log' = log \o HeaderLines(idx, s)
    /\ invoked' = Append(invoked, idx)
    /\ error' = "CalledProcessError"
    /\ pc' = "crashed"
    /\ UNCHANGED <<params, lp_mask, hp_mask, fperr, img, np_spectrum,
                   np_low_pass, np_high_pass, np_img, rs_img, idx, exists,
                   rust_ok>>

\* compare, with a reference image the NumPy image does not broadcast with:
\* the labels before it are printed, then the subtraction raises ValueError
CompareShapeError ==
    /\ pc = "loop"
    /\ idx <= NumImages
    /\ exists[idx]
    /\ rust_ok[idx]
    /\ \E s \in MainShapes, rs \in [1..Len(Labels) -> MainShapes] :
          /\ ~AllBroadcast(s, rs)
          /\ dims' = s
          /\ log' = log \o HeaderLines(idx, s) \o StatsLines(idx, s, rs, 1)
    /\ invoked' = Append(invoked, idx)
    /\ error' = "ValueError"
    /\ pc' = "crashed"
    /\ UNCHANGED <<params, lp_mask, hp_mask, fperr, img, np_spectrum,
                   np_low_pass, np_high_pass, np_img, rs_img, idx, exists,
                   rust_ok>>

\* compare running to its end: three statistics lines, the figure saved
CompareReturns ==
    /\ pc = "loop"
    /\ idx <= NumImages
    /\ exists[idx]
    /\ rust_ok[idx]
    /\ \E s \in MainShapes, rs \in [1..Len(Labels) -> MainShapes] :
          /\ AllBroadcast(s, rs)
          /\ dims' = s
          /\ log' = log \o HeaderLines(idx, s) \o StatsLines(idx, s, rs, 1)
                        \o <<Line("saved", idx, "", s, NoShape)>>
    /\ invoked' = Append(invoked, idx)
    /\ idx' = idx + 1
    /\ UNCHANGED <<pc, params, lp_mask, hp_mask, fperr, img, np_spectrum,
                   np_low_pass, np_high_pass, np_img, rs_img, error, exists,
                   rust_ok>>

\* the loop is over: the closing line
Finish ==
    /\ pc = "loop"
    /\ idx = NumImages + 1
    /\ log' = Append(log, Line("done", 0, "", NoShape, NoShape))
    /\ pc' = "done"
    /\ UNCHANGED <<dims, params, lp_mask, hp_mask, fperr, img, np_spectrum,
                   np_low_pass, np_high_pass, np_img, rs_img, error, idx,
                   exists, rust_ok, invoked>>

Next ==
    \/ SkipMissing
    \/ CompareRustFails
    \/ CompareShapeError
    \/ CompareReturns
    \/ Finish

Spec == Init /\ [][Next]_vars

----------------------------------------------------------------------------
(* Claims about the mask, checked under SpecMask *)

MaskBuilt == pc = "mask_done"

MaskPixels == 1..(dims[1] * dims[2])

PixelD2(i) == D2(dims[1], dims[2], RowOf(i, dims[2]), ColOf(i, dims[2]))

InBand(i) == RatLt(Zero, lp_mask[i]) /\ RatLt(lp_mask[i], One)

\* C1: every value of the mask numpy_low_pass_mask returns is a finite number
\* in the closed interval [0, 1]
C1_MaskInUnitInterval ==
    MaskBuilt =>
        \A i \in MaskPixels :
            /\ IsFinite(lp_mask[i])
            /\ RatLeq(Zero, lp_mask[i])
            /\ RatLeq(lp_mask[i], One)

\* a mask with a pixel strictly inside the transition band, beyond a plateau
\* pixel whose band quotient exceeds 1
C1_Witness ==
    /\ MaskBuilt
    /\ \E i \in MaskPixels : InBand(i)
    /\ \E i \in MaskPixels :
          /\ lp_mask[i] = One
          /\ RatLt(One, Transition(dims[1], dims[2], params[1], params[2])[i])

\* C2: at every pixel the high-pass mask value plus the low-pass mask value is
\* exactly 1
C2_MasksSumToOne ==
    MaskBuilt =>
        /\ DOMAIN hp_mask = DOMAIN lp_mask
        /\ \A i \in MaskPixels : RatAdd(hp_mask[i], lp_mask[i]) = One

\* a mask pair with a transition-band pixel, where neither mask is 0 or 1
C2_Witness ==
    /\ MaskBuilt
    /\ \E i \in MaskPixels :
          InBand(i) /\ RatLt(Zero, hp_mask[i]) /\ RatLt(hp_mask[i], One)

\* the mask is the hard step at (cutoff * diagonal) ** 2
HardStep ==
    \A i \in MaskPixels :
        lp_mask[i] =
           IF RatLeq(PixelD2(i),
                     RatMul(RatMul(params[1], params[1]), Diagonal2(dims[1], dims[2])))
           THEN One ELSE Zero

\* C3 as claimed: with smoothing == 0 building the mask divides by zero nowhere
\* (the division of the transition band is skipped) and the mask is the hard
\* step at (cutoff * diagonal) ** 2
C3_NoDivisionByZero ==
    (MaskBuilt /\ params[2] = Zero) => (fperr = {} /\ HardStep)

\* the part of C3 the program keeps: the quotients by zero are never selected
C3_HardStepOnly ==
    (MaskBuilt /\ params[2] = Zero) => HardStep

\* C10: a pixel at most as far from the centre as another has a mask value at
\* least as large; pixels at equal distance have equal values
C10_MaskMonotone ==
    MaskBuilt =>
        \A i, j \in MaskPixels :
            RatLeq(PixelD2(i), PixelD2(j)) => RatLeq(lp_mask[j], lp_mask[i])

\* a mask that passes from the plateau through the band to zero, with two
\* distinct pixels at the same distance inside the band
C10_Witness ==
    /\ MaskBuilt
    /\ \E i, j, k \in MaskPixels :
          /\ lp_mask[i] = One /\ InBand(j) /\ lp_mask[k] = Zero
          /\ RatLt(PixelD2(i), PixelD2(j)) /\ RatLt(PixelD2(j), PixelD2(k))
    /\ \E i, j \in MaskPixels :
          i # j /\ PixelD2(i) = PixelD2(j) /\ InBand(i)

----------------------------------------------------------------------------
(* Claims about the filtered images, checked under SpecFilter *)

Filtered == pc = "filter_done"

ImgPixels == 1..(img.h * img.w)

\* result * 255 of the two calls of numpy_filter, before np.clip
LowReal(i) == FilterResult255(img, lp_mask)[i]

HighReal(i) == FilterResult255(img, hp_mask)[i]

Unclamped(x) == RatLeq(Zero, x) /\ RatLeq(x, RatOfInt(255))

OutputSum(i) == np_low_pass.px[i] + np_high_pass.px[i]

\* C4 as claimed: the two filtered images, clamped and truncated, sum to the
\* original image within one intensity level at every pixel
C4_PartitionAfterClamp ==
    Filtered =>
        \A i \in ImgPixels : Abs(OutputSum(i) - img.px[i]) <= 1

\* C4 as amended: before np.clip the two results sum to the image exactly; the
\* sum of the two outputs is never more than one level below the image, and it
\* is not above the image at a pixel where neither result was clamped
C4_PartitionWhereUnclamped ==
    Filtered =>
        \A i \in ImgPixels :
            /\ RatAdd(LowReal(i), HighReal(i)) = RatOfInt(img.px[i])
            /\ OutputSum(i) >= img.px[i] - 1
            /\ (Unclamped(LowReal(i)) /\ Unclamped(HighReal(i)))
                  => OutputSum(i) <= img.px[i]

\* an image with a pixel whose high-pass result is negative and clamped, and a
\* pixel where truncation loses a level and nothing is clamped, under a mask
\* with a transition-band pixel
C4_Witness ==
    /\ Filtered
    /\ \E i \in ImgPixels : RatLt(HighReal(i), Zero) /\ OutputSum(i) > img.px[i] + 1
    /\ \E i \in ImgPixels :
          /\ Unclamped(LowReal(i)) /\ Unclamped(HighReal(i))
          /\ OutputSum(i) = img.px[i] - 1
    /\ \E i \in ImgPixels : RatLt(Zero, lp_mask[i]) /\ RatLt(lp_mask[i], One)

----------------------------------------------------------------------------
(* Claims about the spectrum, checked under SpecSpectrum *)

AllZero(a) == \A i \in 1..(a.h * a.w) : a.px[i] = 0

\* C5 as claimed: on an all-zero image numpy_spectrum divides by zero nowhere
\* and returns the all-zero image of the same dimensions
C5_ZeroImageGuarded ==
    (pc = "spectrum_done" /\ AllZero(img)) =>
        /\ fperr = {}
        /\ Shape(np_spectrum) = Shape(img)
        /\ AllZero(np_spectrum)

----------------------------------------------------------------------------
(* Claims about the comparison, checked under SpecCompare *)

Compared == pc = "compare_done"

\* C6 as claimed: a pair of images of different dimensions ends the comparison
\* with an error and no statistics line
C6_MismatchAborts ==
    (Compared /\ Shape(np_img) # Shape(rs_img)) =>
        (error # "none" /\ log = <<>>)

CmpPixels == 1..(np_img.h * np_img.w)

PixelDiff(i) ==
    IF np_img.px[i] >= rs_img.px[i]
    THEN np_img.px[i] - rs_img.px[i]
    ELSE rs_img.px[i] - np_img.px[i]

\* C9: for two images of equal dimensions the line holds the largest per-pixel
\* absolute difference and the number of pixels differing by more than 1; an
\* image against itself gives 0, 0.00 and 0, an image against itself one level
\* higher gives 1 and 0
C9_Statistics ==
    (Compared /\ Shape(np_img) = Shape(rs_img)) =>
        /\ error = "none"
        /\ Len(log) = 1
        /\ \E i \in CmpPixels : log[1].max_diff = PixelDiff(i)
        /\ \A i \in CmpPixels : PixelDiff(i) <= log[1].max_diff
        /\ log[1].off_by_more_than_1 = Cardinality({i \in CmpPixels : PixelDiff(i) > 1})
        /\ log[1].mean_diff >= 0
        /\ log[1].mean_diff <= 100 * log[1].max_diff
        /\ (np_img = rs_img) =>
              /\ log[1].max_diff = 0
              /\ log[1].mean_diff = 0
              /\ log[1].off_by_more_than_1 = 0
        /\ (\A i \in CmpPixels : rs_img.px[i] = np_img.px[i] + 1) =>
              /\ log[1].max_diff = 1
              /\ log[1].off_by_more_than_1 = 0

\* a reference image below the candidate by one level at every pixel, of more
\* than one pixel and not uniform
C9_Witness ==
    /\ Compared
    /\ Shape(np_img) = Shape(rs_img)
    /\ np_img.h * np_img.w > 1
    /\ \A i \in CmpPixels : rs_img.px[i] = np_img.px[i] + 1
    /\ \E i, j \in CmpPixels : np_img.px[i] # np_img.px[j]
    /\ log[1].max_diff = 1

----------------------------------------------------------------------------
(* Claims about the batch loop, checked under Spec *)

Stopped == pc \in {"done", "crashed"}

\* image i was reached: a line about it was printed
Reached(i) == \E k \in 1..Len(log) : log[k].image = i

\* image i was compared: compare printed its three statistics lines and saved
\* the figure
ComparedImage(i) ==
    /\ \A l \in 1..Len(Labels) :
          \E k \in 1..Len(log) :
              log[k].kind = "stats" /\ log[k].image = i /\ log[k].label = Labels[l]
    /\ \E k \in 1..Len(log) : log[k].kind = "saved" /\ log[k].image = i

\* C7 as claimed: when the reference invocation fails for one image, the loop
\* still reaches every test image and the run completes
C7_FailureIsScoped ==
    (Stopped /\ error # "ValueError") =>
        (pc = "done" /\ \A i \in TestImages : Reached(i))

\* a missing image is skipped: no reference invocation, no statistics for it
MissingSkipped ==
    \A i \in TestImages :
        ~exists[i] =>
            /\ \A k \in 1..Len(invoked) : invoked[k] # i
            /\ \A k \in 1..Len(log) : log[k].image = i => log[k].kind = "skip"

\* lines are printed in list order
InListOrder ==
    \A j, k \in 1..Len(log) :
        (j < k /\ log[k].kind # "done") => log[j].image <= log[k].image

\* C8 as claimed: every missing image is skipped without error, and every image
\* that is on disk and whose own reference run succeeds is compared, in list
\* order
C8_ExistingAllCompared ==
    Stopped =>
        /\ MissingSkipped
        /\ InListOrder
        /\ \A i \in TestImages :
              (exists[i] /\ rust_ok[i] /\ ~(error = "ValueError" /\ idx = i))
                 => ComparedImage(i)

\* the part of C8 the program keeps
C8_SkipAndOrder == MissingSkipped /\ InListOrder

====
